---- MODULE Spec2Model ----
(***************************************************************************)
(* Hazard feeds of the disaster-monitoring Streamlit application           *)
(* (src/app.py): the four memoized fetch functions                         *)
(*   fetch_earthquake_data, fetch_wildfire_data, fetch_hurricane_data,     *)
(*   fetch_tsunami_data                                                    *)
(* each wrapped in @st.cache_data(ttl=600), the pages that call them and   *)
(* derive the marker colours, and the upstream HTTP endpoints as the       *)
(* environment.                                                            *)
(*                                                                         *)
(* Conventions.  Magnitudes are in tenths (52 is 5.2).  A JSON value is a  *)
(* record [k, n, s]: k is its kind ("absent" = key missing, "null", "num", *)
(* "str"), n its number, s its string.  An upstream record carries the     *)
(* pair id = <<generation, index>> as its name, so records of two payloads *)
(* of different generations are distinguishable.                           *)
(*                                                                         *)
(* The sign-in side of the same script: table users of users.db,           *)
(* is_password_strong, create_user, authenticate_user, the gate in front   *)
(* of every page and the page dispatch on st.session_state.page.  A        *)
(* password is the sequence of its characters, each written as one         *)
(* representative of its class: "A" upper case, "a" lower case, "1" digit, *)
(* "!" one of SPECIAL_CHARS, "_" any other character.                      *)
(***************************************************************************)
EXTENDS Integers, Sequences, FiniteSets, TLC

VARIABLES
    now,       \* the clock read by the cache (seconds)
    cache,     \* st.cache_data store: one entry per cached function
    lock,      \* st.cache_data compute lock of each cached function: holder or "free"
    upcalls,   \* number of requests.get calls issued per hazard type
    pc,        \* per script run (session thread): "idle", "waiting", "inflight"
    req,       \* per session: hazard type of the page being run
    sess,      \* per session: bookkeeping of the running fetch
    last,      \* observation of the last page run that completed
    scope,     \* what a behaviour explores: page runs allowed, payload variety
    users,     \* the rows of table users in users.db
    session_state,  \* per session: st.session_state (page, authenticated, username)
    shown,     \* per session: what its last script run rendered and handled
    created,   \* whether the last step called create_user, and what it returned
    strength   \* the last call of is_password_strong: its argument and result

feedvars == <<now, cache, lock, upcalls, pc, req, sess, last, scope>>
authvars == <<users, session_state, shown, created, strength>>
vars == <<now, cache, lock, upcalls, pc, req, sess, last, scope,
          users, session_state, shown, created, strength>>

---------------------------------------------------------------------------
(* Bounds of the model *)

MaxTime == 600        \* the clock stops here
MaxRuns == 2          \* page runs (calls of a fetch function) in a behaviour
MaxFeedRuns == 2      \* the same, in the behaviours of one session over all payloads
MaxUpstream == 11     \* largest upstream collection
MaxCore == 4          \* characters of a password that are chosen freely

(* Program constants *)

TTL == 600            \* @st.cache_data(ttl=600)
Cap == 10             \* the [:10] slices

Types == {"seismic", "wildfire", "cyclone", "tsunami"}
Sessions == {"s1", "s2"}
NoType == "none"

\* The clock is observed every half ttl.
TickStep == TTL \div 2

\* Generations of upstream payloads.
Gens == {1, 2}

---------------------------------------------------------------------------
(* JSON values *)

JAbsent == [k |-> "absent", n |-> 0, s |-> ""]
JNull == [k |-> "null", n |-> 0, s |-> ""]
JNum(x) == [k |-> "num", n |-> x, s |-> ""]
JStr(x) == [k |-> "str", n |-> 0, s |-> x]

\* dict.get(key, default): the default only when the key is missing; a key
\* that is present with value null yields null.
Get(v, default) == IF v.k = "absent" THEN default ELSE v

---------------------------------------------------------------------------
(* Sequence helpers *)

Min(a, b) == IF a < b THEN a ELSE b

\* s[:n]
Take(s, n) == SubSeq(s, 1, Min(n, Len(s)))

RECURSIVE Flatten(_)
Flatten(ss) == IF ss = <<>> THEN <<>> ELSE Head(ss) \o Flatten(Tail(ss))

---------------------------------------------------------------------------
(* The upstream feeds: what an endpoint can answer *)

SeismicMags == <<35, 40, 52, 60>>
TsunamiMags == <<45, 50, 65, 80>>
CycloneCats ==
    <<"Category 5", "Tropical Storm", "Category 1", "Hurricane",
      "Tropical Depression", "Category 2", "Category 3", "Category 4">>

Pick(table, i) == table[((i - 1) % Len(table)) + 1]

\* Variants of a record that every fetch function reads to the end.
\* "offmap" carries a latitude of 95 and a longitude of 190.
Variants(t) ==
    CASE t = "seismic" -> {"plain", "nullmag", "offmap"}
      [] t = "wildfire" -> {"plain", "fan", "polygon", "offmap"}
      [] t = "cyclone" -> {"plain", "nocat", "nullcat", "offmap"}
      [] t = "tsunami" -> {"plain", "nomag", "nullmag", "strmag", "offmap"}

\* Variants of a record that lacks what the function subscripts: a feature
\* without "geometry", an element that is no JSON object ("scalar"), an
\* event whose "sources" list is empty.
Malformed(t) ==
    CASE t = "seismic" -> {"nogeometry"}
      [] t = "wildfire" -> {"nosources", "scalar"}
      [] t = "cyclone" -> {"scalar"}
      [] t = "tsunami" -> {"scalar"}

Shape(t, v) == IF v \in Malformed(t) THEN v ELSE "object"

\* One upstream record of hazard type t: record i of generation g, in variant v.
\* A geometry entry <<0>> stands for a Polygon (one list of rings).
RawRec(t, g, i, v) ==
    CASE t = "seismic" ->
           [id |-> <<g, i>>, shape |-> Shape(t, v),
            mag |-> IF v = "nullmag" THEN JNull ELSE JNum(Pick(SeismicMags, i)),
            coordinates |-> IF v = "offmap" THEN <<190, 95, 10>> ELSE <<-118, 34, 10>>]
      [] t = "wildfire" ->
           [id |-> <<g, i>>, shape |-> Shape(t, v),
            geometry |-> CASE v = "fan" -> << <<-120, 38>>, <<-121, 39>>, <<-122, 40>> >>
                           [] v = "polygon" -> << <<-120, 38>>, <<0>>, <<-121, 39>> >>
                           [] v = "offmap" -> << <<190, 95>> >>
                           [] OTHER -> << <<-120, 38>> >>,
            url |-> JStr("eonet")]
      [] t = "cyclone" ->
           [id |-> <<g, i>>, shape |-> Shape(t, v),
            coordinates |-> IF v = "offmap" THEN <<190, 95>> ELSE <<-75, 25>>,
            category |-> CASE v = "nocat" -> JAbsent
                           [] v = "nullcat" -> JNull
                           [] OTHER -> JStr(Pick(CycloneCats, i))]
      [] t = "tsunami" ->
           [id |-> <<g, i>>, shape |-> Shape(t, v),
            latitude |-> IF v = "offmap" THEN JNum(95) ELSE JNum(38),
            longitude |-> IF v = "offmap" THEN JNum(190) ELSE JNum(142),
            earthquakeMagnitude |->
                CASE v = "nomag" -> JAbsent
                  [] v = "nullmag" -> JNull
                  [] v = "strmag" -> JStr("unknown")
                  [] OTHER -> JNum(Pick(TsunamiMags, i))]

\* An upstream collection of n records; the variant applies to its first record.
MkItems(t, n, g, v) ==
    [i \in 1..n |-> RawRec(t, g, i, IF i = 1 THEN v ELSE "plain")]

\* The variant of the largest collection.
BigVariant(t) == IF t = "wildfire" THEN "fan" ELSE "plain"

\* The collections an endpoint can answer with: none, one plain record of
\* either generation, the largest one and, when the behaviour explores the
\* payloads widely, one record in every variant and a malformed record
\* followed by a plain one.
Payloads(t) ==
    {<<>>}
      \cup {MkItems(t, 1, g, "plain") : g \in Gens}
      \cup {MkItems(t, MaxUpstream, 1, BigVariant(t))}
      \cup (IF scope.wide
            THEN {MkItems(t, 1, 1, v) : v \in Variants(t)}
                   \cup {MkItems(t, 2, 1, v) : v \in Malformed(t)}
            ELSE {})

\* Status codes with a body the program may read, and the error codes.
BodyStatuses == IF scope.wide THEN {200, 301} ELSE {200}
ErrorStatuses == IF scope.wide THEN {404, 503} ELSE {503}

\* Only two of the four requests.get calls pass timeout=10.
HasTimeout(t) == t \in {"cyclone", "tsunami"}

TransportError == [kind |-> "transport", status |-> 0, json |-> FALSE, items |-> <<>>]
TimeoutError == [kind |-> "timeout", status |-> 0, json |-> FALSE, items |-> <<>>]
Http(st, items) == [kind |-> "http", status |-> st, json |-> TRUE, items |-> items]
HttpBadBody(st) == [kind |-> "http", status |-> st, json |-> FALSE, items |-> <<>>]

Responses(t) ==
    {TransportError}
      \cup (IF HasTimeout(t) THEN {TimeoutError} ELSE {})
      \cup {Http(st, p) : st \in BodyStatuses, p \in Payloads(t)}
      \cup (IF scope.wide THEN {HttpBadBody(st) : st \in BodyStatuses} ELSE {})
      \cup {Http(st, <<>>) : st \in ErrorStatuses}

---------------------------------------------------------------------------
(* The four fetch functions.  A result is a returned list or an exception  *)
(* leaving the function.                                                   *)

Ret(events) == [exc |-> "none", events |-> events]
Raise(e) == [exc |-> e, events |-> <<>>]

\* response.raise_for_status(): HTTPError for 400..599 only.
RaisesForStatus(st) == st >= 400 /\ st < 600

\* The exception a malformed record raises where the function subscripts it:
\* quake["geometry"] (KeyError), event.get / feature.get on a value that is
\* no dict (AttributeError), event.get("sources", [{}])[0] (IndexError).
ExcOf(shape) ==
    CASE shape = "nogeometry" -> "KeyError"
      [] shape = "nosources" -> "IndexError"
      [] OTHER -> "AttributeError"

\* The loop over items: the exception of the first malformed record leaves
\* the loop (none of the loops has a try of its own), else the list built.
Loop(items, built) ==
    LET bad == {i \in 1..Len(items) : items[i].shape # "object"}
    IN IF bad = {} THEN Ret(built)
       ELSE Raise(ExcOf(items[CHOOSE i \in bad : \A j \in bad : i <= j].shape))

fetch_earthquake_data(resp) ==
    IF resp.kind # "http" THEN Raise("ConnectionError")
    ELSE IF resp.status # 200 THEN Ret(<<>>)
    ELSE IF ~resp.json THEN Ret(<<>>)
    ELSE LET earthquakes == Take(resp.items, Cap)
         IN Loop(earthquakes,
                 [i \in 1..Len(earthquakes) |->
                   [place |-> earthquakes[i].id,
                    magnitude |-> earthquakes[i].mag,
                    latitude |-> earthquakes[i].coordinates[2],
                    longitude |-> earthquakes[i].coordinates[1]]])

\* Faulty variant: one record per source event, at its first point.
fetch_wildfire_first_point(resp) ==
    IF resp.kind # "http" THEN Raise("ConnectionError")
    ELSE IF resp.status # 200 THEN Ret(<<>>)
    ELSE IF ~resp.json THEN Ret(<<>>)
    ELSE LET events == Take(resp.items, Cap)
         IN Loop(events,
                 [i \in 1..Len(events) |->
                   [title |-> events[i].id,
                    latitude |-> events[i].geometry[1][2],
                    longitude |-> events[i].geometry[1][1],
                    source |-> events[i].url]])

fetch_wildfire_data(resp) ==
    IF resp.kind # "http" THEN Raise("ConnectionError")
    ELSE IF resp.status # 200 THEN Ret(<<>>)
    ELSE IF ~resp.json THEN Ret(<<>>)
    ELSE LET events == Take(resp.items, Cap)
             Points(event) ==
                 LET pts == SelectSeq(event.geometry, LAMBDA c : Len(c) = 2)
                 IN [j \in 1..Len(pts) |->
                       [title |-> event.id,
                        latitude |-> pts[j][2],
                        longitude |-> pts[j][1],
                        source |-> event.url]]
         IN Loop(events, Flatten([i \in 1..Len(events) |-> Points(events[i])]))

fetch_hurricane_data(resp) ==
    IF resp.kind # "http" THEN Ret(<<>>)
    ELSE IF RaisesForStatus(resp.status) THEN Ret(<<>>)
    ELSE IF ~resp.json THEN Ret(<<>>)
    ELSE Loop(resp.items,
              [i \in 1..Len(resp.items) |->
                [name |-> resp.items[i].id,
                 latitude |-> resp.items[i].coordinates[2],
                 longitude |-> resp.items[i].coordinates[1],
                 category |-> Get(resp.items[i].category, JStr("Unknown Category"))]])

fetch_tsunami_data(resp) ==
    IF resp.kind # "http" THEN Ret(<<>>)
    ELSE IF RaisesForStatus(resp.status) THEN Ret(<<>>)
    ELSE IF ~resp.json THEN Ret(<<>>)
    ELSE Loop(resp.items,
              [i \in 1..Len(resp.items) |->
                [location |-> resp.items[i].id,
                 latitude |-> Get(resp.items[i].latitude, JNull),
                 longitude |-> Get(resp.items[i].longitude, JNull),
                 magnitude |-> Get(resp.items[i].earthquakeMagnitude, JStr("N/A"))]])

\* The function behind each hazard type.
Fetch(t, resp) ==
    CASE t = "seismic" -> fetch_earthquake_data(resp)
      [] t = "wildfire" -> fetch_wildfire_data(resp)
      [] t = "cyclone" -> fetch_hurricane_data(resp)
      [] t = "tsunami" -> fetch_tsunami_data(resp)

---------------------------------------------------------------------------
(* Marker colours computed by the pages.  A colour, or the name of the     *)
(* exception the expression raises.                                        *)

\* Faulty variant: the band limits belong to the lower band.
SeismicColorInclusive(magnitude) ==
    IF magnitude.k # "num" THEN "TypeError"
    ELSE IF magnitude.n <= 40 THEN "green"
    ELSE IF magnitude.n <= 60 THEN "orange"
    ELSE "red"

\* earthquakes(): "green" if magnitude < 4 else "orange" if magnitude < 6 else "red".
\* Comparing None (or a string) with an int raises TypeError.
SeismicColor(magnitude) ==
    IF magnitude.k # "num" THEN "TypeError"
    ELSE IF magnitude.n < 40 THEN "green"
    ELSE IF magnitude.n < 60 THEN "orange"
    ELSE "red"

\* float(x): TypeError for None, ValueError for a string that is no number.
Float(x) ==
    CASE x.k = "num" -> [err |-> "none", n |-> x.n]
      [] x.k = "str" -> [err |-> "ValueError", n |-> 0]
      [] OTHER -> [err |-> "TypeError", n |-> 0]

\* tsunamis(): the marker_colors expression for one event.
TsunamiColor(magnitude) ==
    IF magnitude = JStr("N/A") THEN "blue"
    ELSE LET f == Float(magnitude)
         IN IF f.err # "none" THEN f.err
            ELSE IF f.n >= 80 THEN "darkred"
            ELSE IF f.n >= 65 THEN "red"
            ELSE IF f.n >= 50 THEN "orange"
            ELSE "yellow"

\* Faulty variant: a lookup without a default, a KeyError for a label that
\* is no key of the table.
CycloneColorNoDefault(category) ==
    CASE category = JStr("Tropical Depression") -> "green"
      [] category = JStr("Tropical Storm") -> "orange"
      [] category = JStr("Category 1") -> "yellow"
      [] category = JStr("Category 2") -> "gold"
      [] category = JStr("Category 3") -> "red"
      [] category = JStr("Category 4") -> "darkred"
      [] category = JStr("Category 5") -> "purple"
      [] OTHER -> "KeyError"

\* hurricanes(): category_colors.get(category, "blue").
CycloneColor(category) ==
    CASE category = JStr("Tropical Depression") -> "green"
      [] category = JStr("Tropical Storm") -> "orange"
      [] category = JStr("Category 1") -> "yellow"
      [] category = JStr("Category 2") -> "gold"
      [] category = JStr("Category 3") -> "red"
      [] category = JStr("Category 4") -> "darkred"
      [] category = JStr("Category 5") -> "purple"
      [] OTHER -> "blue"

\* wildfires(): folium.Icon(color="red", ...) for every record.
WildfireColor == "red"

\* earthquakes(): CircleMarker(radius=magnitude * 2), in tenths.
SeismicRadius(magnitude) == 2 * magnitude.n

Errors == {"TypeError", "ValueError", "KeyError"}

\* The selectbox label of a record.
Label(t, e) ==
    CASE t = "seismic" -> <<e.place, e.magnitude>>
      [] t = "wildfire" -> <<e.title>>
      [] t = "cyclone" -> <<e.name, e.category>>
      [] OTHER -> <<>>

NoLabel == <<>>

\* The keys of {label: record for record in events}.
Labels(t, events) == {Label(t, events[i]) : i \in 1..Len(events)}

\* {label: record for record in events}[label]: a later record replaces an
\* earlier one that has the same label; a label that is no key is a
\* KeyError (no record).
DictGet(t, events, label) ==
    LET hits == {i \in 1..Len(events) : Label(t, events[i]) = label}
    IN IF hits = {} THEN <<>>
       ELSE <<events[CHOOSE i \in hits : \A j \in hits : j <= i]>>

\* Faulty variant: the widget keeps the label chosen earlier whatever the
\* options are.
SelectboxKept(t, events, want) ==
    IF want = NoLabel THEN Label(t, events[1]) ELSE want

\* st.selectbox(..., list(dict.keys())): the label chosen earlier when it is
\* one of the options of this run, else the first option.
Selectbox(t, events, want) ==
    IF want \in Labels(t, events) THEN want ELSE Label(t, events[1])

\* The pages that let the user select one record.
HasSelectbox(t) == t \in {"seismic", "wildfire", "cyclone"}

\* The record a page shows on its map for a non-empty list: none on the
\* page without a selectbox.
Picked(t, events, want) ==
    IF events = <<>> \/ ~HasSelectbox(t) THEN <<>>
    ELSE DictGet(t, events, Selectbox(t, events, want))

Rendered(colors) ==
    LET bad == {i \in 1..Len(colors) : colors[i] \in Errors}
    IN IF bad = {} THEN [err |-> "none", colors |-> colors]
       ELSE [err |-> colors[CHOOSE i \in bad : \A j \in bad : i <= j], colors |-> <<>>]

\* What a page does with the list its fetch returned; want is the label the
\* user chose earlier in the selectbox (pages with a selectbox only).
Page(t, events, want) ==
    IF events = <<>> THEN Rendered(<<>>)
    ELSE IF HasSelectbox(t) /\ Picked(t, events, want) = <<>> THEN Rendered(<<"KeyError">>)
    ELSE CASE t = "seismic" ->
                Rendered(<<SeismicColor(Picked(t, events, want)[1].magnitude)>>)
           [] t = "wildfire" -> Rendered(<<WildfireColor>>)
           [] t = "cyclone" ->
                Rendered(<<CycloneColor(Picked(t, events, want)[1].category)>>)
           [] t = "tsunami" ->
                LET valid_events == SelectSeq(events,
                        LAMBDA e : e.latitude # JNull /\ e.longitude # JNull)
                IN Rendered([i \in 1..Len(valid_events) |->
                                TsunamiColor(valid_events[i].magnitude)])

\* The radius of the circle drawn by the seismic page, 0 when none is drawn.
Radius(t, events, want) ==
    IF t = "seismic" /\ events # <<>> /\ Page(t, events, want).err = "none"
    THEN SeismicRadius(Picked(t, events, want)[1].magnitude)
    ELSE 0

\* The labels a user can have chosen before this run: none (first visit of
\* the page), or an option the same page offered in the run before.
Wants(t) ==
    {NoLabel} \cup (IF scope.wide /\ last.t = t /\ HasSelectbox(t)
                    THEN Labels(t, last.events) ELSE {})

---------------------------------------------------------------------------
(* Accounts: is_password_strong, table users, create_user,                 *)
(* authenticate_user.                                                      *)

MIN_PASSWORD_LENGTH == 8

Usernames == {"ann", "bob"}
Emails == {"a@x", "b@x"}
NoUser == ""

PwStrong == <<"A", "a", "1", "!", "a", "a", "a", "a">>
PwShort == <<"A", "a", "1", "!">>
PwNoSpecial == <<"A", "a", "1", "_", "a", "a", "a", "a">>
PwLower == <<"a", "a", "a", "a", "a", "a", "a", "a">>
Passwords == {PwStrong, PwShort, PwNoSpecial, PwLower}

\* What a user types into "Password" (Login) and "Confirm Password".
Typed == {PwStrong, PwShort}

\* The arguments of create_user when it is called on its own: any username
\* (the empty one included) and a second strong password.
PwOther == <<"1", "!", "A", "a", "_", "_", "_", "_">>
AnyUsernames == Usernames \cup {"cat", ""}
AnyPasswords == Passwords \cup {PwOther}

\* re.search(class, password)
Search(class, password) == \E i \in 1..Len(password) : password[i] = class

\* The length test taken as "at most" instead of "less than".
is_password_strong_le(password) ==
    IF Len(password) <= MIN_PASSWORD_LENGTH
    THEN [ok |-> FALSE, msg |-> <<"length">>]
    ELSE LET messages ==
                 (IF ~Search("A", password) THEN <<"uppercase letter">> ELSE <<>>)
              \o (IF ~Search("a", password) THEN <<"lowercase letter">> ELSE <<>>)
              \o (IF ~Search("1", password) THEN <<"number">> ELSE <<>>)
              \o (IF ~Search("!", password) THEN <<"special character">> ELSE <<>>)
         IN IF messages # <<>>
            THEN [ok |-> FALSE, msg |-> messages]
            ELSE [ok |-> TRUE, msg |-> <<>>]

\* is_password_strong(password): the flag and what the message lists.
is_password_strong(password) ==
    IF Len(password) < MIN_PASSWORD_LENGTH
    THEN [ok |-> FALSE, msg |-> <<"length">>]
    ELSE LET messages ==
                 (IF ~Search("A", password) THEN <<"uppercase letter">> ELSE <<>>)
                   \o (IF ~Search("a", password) THEN <<"lowercase letter">> ELSE <<>>)
                   \o (IF ~Search("1", password) THEN <<"number">> ELSE <<>>)
                   \o (IF ~Search("!", password) THEN <<"special character">> ELSE <<>>)
         IN IF messages # <<>> THEN [ok |-> FALSE, msg |-> messages]
            ELSE [ok |-> TRUE, msg |-> <<>>]

\* A row of table users; the stored hash verifies exactly its password.
Row(username, password, email) ==
    [username |-> username, password |-> password, email |-> email]

\* Faulty variant: the table has no key, every INSERT adds a row.
InsertNoKey(table, row) == [err |-> FALSE, table |-> table \cup {row}]

\* INSERT INTO users: username is the PRIMARY KEY, a second row with the
\* same username is an IntegrityError.
Insert(table, row) ==
    IF \E r \in table : r.username = row.username
    THEN [err |-> TRUE, table |-> table]
    ELSE [err |-> FALSE, table |-> table \cup {row}]

\* create_user(username, password, email): the value returned and the table
\* afterwards.
create_user(table, username, password, email) ==
    IF ~is_password_strong(password).ok THEN [ok |-> FALSE, table |-> table]
    ELSE LET ins == Insert(table, Row(username, password, email))
         IN IF ins.err THEN [ok |-> FALSE, table |-> table]
            ELSE [ok |-> TRUE, table |-> ins.table]

\* authenticate_user(username, password): SELECT password WHERE username,
\* then bcrypt.checkpw against the row found.
authenticate_user(table, username, password) ==
    \E r \in table : r.username = username /\ r.password = password

\* UPDATE users SET username, email WHERE username = old: the key stays
\* unique (IntegrityError otherwise).
Update(table, old, username, email) ==
    LET hit == {r \in table : r.username = old}
        rest == table \ hit
    IN IF hit # {} /\ \E r \in rest : r.username = username
       THEN [err |-> TRUE, table |-> table]
       ELSE [err |-> FALSE,
             table |-> rest \cup {Row(username, r.password, email) : r \in hit}]

---------------------------------------------------------------------------
(* The gate and the page dispatch of one script run.                       *)

HazardPages == {"earthquakes", "wildfires", "hurricanes", "tsunamis"}
InfoPages == {"earthquake_info", "wildfire_info", "hurricane_info", "tsunami_info"}
Dispatched == {"home", "news", "profile", "logout"} \cup HazardPages \cup InfoPages

\* Faulty variant: the gate lets every run through.
GatedNever(session) == FALSE

\* if not st.session_state.authenticated: auth_page(); st.stop()
Gated(session) == ~session.authenticated

\* The page function a run calls: auth_page behind the gate, else the
\* branch of the if / elif chain; the final else is the prediction page.
PageFn(session) ==
    IF Gated(session) THEN "auth"
    ELSE IF session.page \in Dispatched THEN session.page
    ELSE "prediction"

\* The fetch function a page calls.
FetchOf(page) ==
    CASE page = "earthquakes" -> "seismic"
      [] page = "wildfires" -> "wildfire"
      [] page = "hurricanes" -> "cyclone"
      [] page = "tsunamis" -> "tsunami"
      [] OTHER -> NoType

\* The pages the buttons of a page lead to.
NavTargets(page) ==
    CASE page = "home" -> {"prediction", "news", "profile"} \cup HazardPages
      [] page = "earthquakes" -> {"home", "earthquake_info"}
      [] page = "wildfires" -> {"home", "wildfire_info"}
      [] page = "hurricanes" -> {"home", "hurricane_info"}
      [] page = "tsunamis" -> {"home", "tsunami_info"}
      [] page = "earthquake_info" -> {"earthquakes"}
      [] page = "wildfire_info" -> {"wildfires"}
      [] page = "hurricane_info" -> {"hurricanes"}
      [] page = "tsunami_info" -> {"tsunamis"}
      [] page = "news" -> {"home"}
      [] page = "prediction" -> {"home"}
      [] page = "logout" -> {"auth"}
      [] OTHER -> {}

NewSession == [page |-> "auth", authenticated |-> FALSE, username |-> NoUser]
NothingShown == [page |-> "none", fetch |-> NoType, flag |-> FALSE, event |-> <<"none">>]
NoCall == [called |-> FALSE, ok |-> FALSE]

\* is_password_strong has not been called.
NoCheck == [called |-> FALSE, password |-> <<>>, result |-> [ok |-> FALSE, msg |-> <<>>]]

---------------------------------------------------------------------------
(* st.cache_data(ttl=600): one store per decorated function.  A call reads *)
(* the store; on a miss it takes the function's compute lock, reads again, *)
(* and only then runs the function and writes the value it RETURNED (any   *)
(* value, an empty list included) with the time of the write.  An          *)
(* exception leaves the function through the cache and nothing is written. *)
(* An entry expires once its age reaches the ttl.                          *)

\* Faulty variant: the four functions share one store.
FunctionKeyShared(t) == "seismic"

\* The store a hazard type's function reads and writes.
FunctionKey(t) == t

NoEntry == [present |-> FALSE, events |-> <<>>, fetchedAt |-> 0]

Entry(t) == cache[FunctionKey(t)]

\* Faulty variant: the function is not memoized.
FreshNever(t) == FALSE

\* Cache hit: an entry exists and has not expired.
Fresh(t) == Entry(t).present /\ now - Entry(t).fetchedAt < TTL

\* Faulty variant: the compute lock is not waited for.
LockIgnored(t) == TRUE

\* The compute lock of the function can be taken.
LockAvailable(t) == lock[FunctionKey(t)] = "free"

\* Faulty variant: the lock is taken and dropped before the function runs.
HolderDropped(s) == "free"

\* The holder recorded when session s takes the compute lock.
Holder(s) == s

\* Faulty variant: the returned list is merged into the entry.
WrittenMerged(old, new) == old \o new

\* The list the cache writes for a returned value.
Written(old, new) == new

\* A failed fetch: timeout, transport error, non-2xx status or unparsable body.
Failed(resp) ==
    resp.kind # "http" \/ resp.status < 200 \/ resp.status > 299 \/ ~resp.json

\* The answer as an observer of the run records it.
Summary(resp) ==
    [kind |-> resp.kind, status |-> resp.status, json |-> resp.json, items |-> resp.items]

NoResp == [kind |-> "none", status |-> 0, json |-> FALSE, items |-> <<>>]
NoRender == [err |-> "none", colors |-> <<>>]
IdleSess == [issued |-> 0, stale |-> FALSE, issuedAt |-> 0, quiet |-> FALSE]

\* What the user sees at the end of a page run over the list events.
View(t, events, want) ==
    [events |-> events, want |-> want, picked |-> Picked(t, events, want),
     render |-> Page(t, events, want), radius |-> Radius(t, events, want)]

NoView == [events |-> <<>>, want |-> NoLabel, picked |-> <<>>,
           render |-> NoRender, radius |-> 0]

\* An upstream that accepts the connection may answer, or stay silent for
\* ever.
Silence == IF scope.wide THEN BOOLEAN ELSE {FALSE}

\* What ends the requests.get of session s: any answer of the endpoint or,
\* when the endpoint stays silent, the timeout the call was given.
Answers(s) ==
    IF sess[s].quiet
    THEN (IF HasTimeout(req[s]) THEN {TimeoutError} ELSE {})
    ELSE Responses(req[s])

Active == {s \in Sessions : pc[s] # "idle"}

Start ==
    /\ now = 0
    /\ cache = [t \in Types |-> NoEntry]
    /\ lock = [t \in Types |-> "free"]
    /\ upcalls = [t \in Types |-> 0]
    /\ pc = [s \in Sessions |-> "idle"]
    /\ req = [s \in Sessions |-> NoType]
    /\ sess = [s \in Sessions |-> IdleSess]
    /\ last = [n |-> 0, t |-> NoType, how |-> "none", resp |-> NoResp,
               up |-> 0, stale |-> FALSE] @@ NoView
    /\ users = {}
    /\ session_state = [s \in Sessions |-> NewSession]
    /\ shown = [s \in Sessions |-> NothingShown]
    /\ created = NoCall

\* Two sessions, plain payloads and answers.
Init == Start /\ scope = [runs |-> MaxRuns, wide |-> FALSE] /\ strength = NoCheck

\* One session, every payload variant and answer.
InitFeeds == Start /\ scope = [runs |-> MaxFeedRuns, wide |-> TRUE] /\ strength = NoCheck

\* The clock advances (observed while a run can still start or end).
Tick ==
    /\ now + TickStep <= MaxTime
    /\ last.n < scope.runs
    /\ now' = now + TickStep
    /\ UNCHANGED <<cache, lock, upcalls, pc, req, sess, last, scope>>
    /\ UNCHANGED authvars

\* The run of session s ends having been served from the store.
ServeHit(s, t, want) ==
    /\ last' = [n |-> last.n + 1, t |-> t, how |-> "hit", resp |-> NoResp,
                up |-> sess[s].issued, stale |-> FALSE]
                 @@ View(t, Entry(t).events, want)
    /\ pc' = [pc EXCEPT ![s] = "idle"]
    /\ req' = [req EXCEPT ![s] = NoType]
    /\ sess' = [sess EXCEPT ![s] = IdleSess]
    /\ UNCHANGED <<now, cache, lock, upcalls, scope>>
    /\ UNCHANGED authvars

\* A page of session s calls its fetch function and the store has the value.
CallHit(s, t) ==
    /\ pc[s] = "idle"
    /\ last.n + Cardinality(Active) < scope.runs
    /\ Fresh(t)
    /\ \E want \in Wants(t) : ServeHit(s, t, want)

\* A page of session s calls its fetch function and the store misses.
CallMiss(s, t) ==
    /\ pc[s] = "idle"
    /\ last.n + Cardinality(Active) < scope.runs
    /\ ~Fresh(t)
    /\ pc' = [pc EXCEPT ![s] = "waiting"]
    /\ req' = [req EXCEPT ![s] = t]
    /\ sess' = [sess EXCEPT ![s] = IdleSess]
    /\ UNCHANGED <<now, cache, lock, upcalls, last, scope>>
    /\ UNCHANGED authvars

\* Session s takes the compute lock and finds the value another run has written.
AcquireHit(s) ==
    /\ pc[s] = "waiting"
    /\ LockAvailable(req[s])
    /\ Fresh(req[s])
    /\ \E want \in Wants(req[s]) : ServeHit(s, req[s], want)

\* Session s takes the compute lock, still misses, and the function issues
\* its requests.get.
AcquireMiss(s) ==
    /\ pc[s] = "waiting"
    /\ LockAvailable(req[s])
    /\ ~Fresh(req[s])
    /\ lock' = [lock EXCEPT ![FunctionKey(req[s])] = Holder(s)]
    /\ upcalls' = [upcalls EXCEPT ![req[s]] = @ + 1]
    /\ pc' = [pc EXCEPT ![s] = "inflight"]
    /\ \E quiet \in Silence :
         sess' = [sess EXCEPT ![s] = [issued |-> sess[s].issued + 1,
                                     stale |-> Entry(req[s]).present,
                                     issuedAt |-> now, quiet |-> quiet]]
    /\ UNCHANGED <<now, cache, req, last, scope>>
    /\ UNCHANGED authvars

\* The upstream answers (or the request fails); the function returns or
\* raises, the store is written on a return, the lock is released and the
\* page renders the list.
Respond(s) ==
    /\ pc[s] = "inflight"
    /\ \E resp \in Answers(s) :
         LET t == req[s]
             r == Fetch(t, resp)
         IN /\ IF r.exc = "none"
               THEN /\ cache' = [cache EXCEPT ![FunctionKey(t)] =
                                   [present |-> TRUE,
                                    events |-> Written(Entry(t).events, r.events),
                                    fetchedAt |-> now]]
                    /\ \E want \in Wants(t) :
                         last' = [n |-> last.n + 1, t |-> t, how |-> "fetched",
                                  resp |-> Summary(resp),
                                  up |-> sess[s].issued, stale |-> sess[s].stale]
                                   @@ View(t, r.events, want)
               ELSE /\ cache' = cache
                    /\ last' = [n |-> last.n + 1, t |-> t, how |-> "exception",
                                resp |-> Summary(resp),
                                up |-> sess[s].issued, stale |-> sess[s].stale]
                                 @@ NoView
            /\ lock' = [lock EXCEPT ![FunctionKey(t)] = "free"]
    /\ pc' = [pc EXCEPT ![s] = "idle"]
    /\ req' = [req EXCEPT ![s] = NoType]
    /\ sess' = [sess EXCEPT ![s] = IdleSess]
    /\ UNCHANGED <<now, upcalls, scope>>
    /\ UNCHANGED authvars

Next ==
    \/ Tick
    \/ \E s \in Sessions, t \in Types : CallHit(s, t)
    \/ \E s \in Sessions, t \in Types : CallMiss(s, t)
    \/ \E s \in Sessions : AcquireHit(s)
    \/ \E s \in Sessions : AcquireMiss(s)
    \/ \E s \in Sessions : Respond(s)

Spec == Init /\ [][Next]_vars

\* The runs of one session.
NextFeeds ==
    \/ Tick
    \/ \E t \in Types : CallHit("s1", t)
    \/ \E t \in Types : CallMiss("s1", t)
    \/ AcquireMiss("s1")
    \/ Respond("s1")

SpecFeeds == InitFeeds /\ [][NextFeeds]_vars

---------------------------------------------------------------------------
(* Script runs of the sign-in side.  Every action is what one widget event *)
(* of session s sets off: the run of the script that handles it (the gate, *)
(* the page function, the handler) and, when the handler calls st.rerun(), *)
(* the run that st.rerun() starts at once.                                 *)

\* What a run of the script renders for a session state: the flag read at
\* the gate, the page function called and the fetch that page calls.
Render(session, event) ==
    [page |-> PageFn(session), fetch |-> FetchOf(PageFn(session)),
     flag |-> session.authenticated, event |-> event]

\* The last run of session s handled event and rendered for session state
\* session.
Ran(s, session, event) == shown' = [shown EXCEPT ![s] = Render(session, event)]

\* The user can act on a widget of page: the last run rendered it and this
\* run renders it again.
CanClick(s, page) ==
    /\ shown[s].page = page
    /\ PageFn(session_state[s]) = page

\* SELECT username, email FROM users WHERE username = session username
UserData(s) == {r \in users : r.username = session_state[s].username}

\* A run without a widget event: first load or browser refresh.
Load(s) ==
    /\ Ran(s, session_state[s], <<"none">>)
    /\ session_state' =
         IF PageFn(session_state[s]) = "logout"
         THEN [session_state EXCEPT ![s].authenticated = FALSE, ![s].username = NoUser]
         ELSE session_state
    /\ created' = NoCall
    /\ UNCHANGED users
    /\ UNCHANGED <<feedvars, strength>>

\* auth_page, button "Login".
Login(s, username, password) ==
    /\ CanClick(s, "auth")
    /\ session_state' =
         IF authenticate_user(users, username, password)
         THEN [session_state EXCEPT ![s] =
                 [page |-> "home", authenticated |-> TRUE, username |-> username]]
         ELSE session_state
    /\ Ran(s, session_state'[s], <<"login", username, password>>)
    /\ created' = NoCall
    /\ UNCHANGED users
    /\ UNCHANGED <<feedvars, strength>>

\* auth_page, button "Create Account".
SignUp(s, signup_email, new_user, new_pass, confirm_pass) ==
    /\ CanClick(s, "auth")
    /\ Ran(s, session_state[s], <<"signup">>)
    /\ IF new_user = "" \/ new_pass = <<>> \/ signup_email = ""
          \/ new_pass # confirm_pass
          \/ ~is_password_strong(new_pass).ok
       THEN /\ created' = NoCall
            /\ UNCHANGED users
       ELSE LET r == create_user(users, new_user, new_pass, signup_email)
            IN /\ users' = r.table
               /\ created' = [called |-> TRUE, ok |-> r.ok]
    /\ UNCHANGED session_state
    /\ UNCHANGED <<feedvars, strength>>

\* A button that sets st.session_state.page and calls st.rerun().
Navigate(s, target) ==
    /\ \E page \in Dispatched \cup {"prediction"} :
         CanClick(s, page) /\ target \in NavTargets(page)
    /\ session_state' = [session_state EXCEPT ![s].page = target]
    /\ Ran(s, session_state'[s], <<"nav">>)
    /\ created' = NoCall
    /\ UNCHANGED users
    /\ UNCHANGED <<feedvars, strength>>

\* profile_page, button "Save Changes".
SaveProfile(s, new_username, new_email) ==
    /\ CanClick(s, "profile")
    /\ UserData(s) # {}
    /\ LET u == Update(users, session_state[s].username, new_username, new_email)
       IN /\ users' = u.table
          /\ session_state' =
               IF u.err THEN session_state
               ELSE [session_state EXCEPT ![s].username = new_username]
    /\ Ran(s, session_state'[s], <<"save">>)
    /\ created' = NoCall
    /\ UNCHANGED <<feedvars, strength>>

\* profile_page, button "Logout".
Logout(s) ==
    /\ CanClick(s, "profile")
    /\ UserData(s) # {}
    /\ session_state' = [session_state EXCEPT ![s] =
           [page |-> "logout", authenticated |-> FALSE, username |-> NoUser]]
    /\ Ran(s, session_state'[s], <<"logout">>)
    /\ created' = NoCall
    /\ UNCHANGED users
    /\ UNCHANGED <<feedvars, strength>>

\* The sign-in side explores no feed.
InitAuth == Start /\ scope = [runs |-> 0, wide |-> FALSE] /\ strength = NoCheck

NextAuth ==
    \/ \E s \in Sessions : Load(s)
    \/ \E s \in Sessions, u \in Usernames, p \in Typed : Login(s, u, p)
    \/ \E s \in Sessions, e \in Emails \cup {""}, u \in Usernames \cup {""},
          p \in Passwords, c \in Typed : SignUp(s, e, u, p, c)
    \/ \E s \in Sessions, target \in Dispatched \cup {"prediction"} : Navigate(s, target)
    \/ \E s \in Sessions, u \in Usernames, e \in Emails : SaveProfile(s, u, e)
    \/ \E s \in Sessions : Logout(s)

SpecAuth == InitAuth /\ [][NextAuth]_vars

---------------------------------------------------------------------------
(* create_user on its own: any sequence of calls, with any arguments.      *)

CreateUser(username, password, email) ==
    /\ LET r == create_user(users, username, password, email)
       IN /\ users' = r.table
          /\ created' = [called |-> TRUE, ok |-> r.ok]
    /\ UNCHANGED <<session_state, shown>>
    /\ UNCHANGED <<feedvars, strength>>

InitAccounts == Start /\ scope = [runs |-> 0, wide |-> FALSE] /\ strength = NoCheck

NextAccounts ==
    \E u \in AnyUsernames, p \in AnyPasswords, e \in Emails : CreateUser(u, p, e)

SpecAccounts == InitAccounts /\ [][NextAccounts]_vars

---------------------------------------------------------------------------
(* is_password_strong on its own, called once with a password of the set   *)
(* below: every arrangement of up to MaxCore characters of the five        *)
(* classes, as it is and drawn out by repeating its last character to one  *)
(* character below, at, and one above MIN_PASSWORD_LENGTH.                 *)

Classes == {"A", "a", "1", "!", "_"}
Cores == UNION {[1..n -> Classes] : n \in 0..MaxCore}
Stretch(core, n) ==
    [i \in 1..n |-> IF i <= Len(core) THEN core[i]
                    ELSE IF core = <<>> THEN "_" ELSE core[Len(core)]]
StrengthInputs ==
    Cores \cup {Stretch(core, n) : core \in Cores,
                   n \in (MIN_PASSWORD_LENGTH - 1)..(MIN_PASSWORD_LENGTH + 1)}

CheckStrength ==
    /\ ~strength.called
    /\ strength' = [strength EXCEPT !.called = TRUE,
                                    !.result = is_password_strong(strength.password)]
    /\ UNCHANGED <<users, session_state, shown, created>>
    /\ UNCHANGED feedvars

InitStrength ==
    /\ Start
    /\ scope = [runs |-> 0, wide |-> FALSE]
    /\ strength \in {[NoCheck EXCEPT !.password = password] : password \in StrengthInputs}

NextStrength == CheckStrength

SpecStrength == InitStrength /\ [][NextStrength]_vars

TypeOK ==
    /\ now \in 0..MaxTime
    /\ \A t \in Types : Entry(t).fetchedAt <= now /\ lock[t] \in Sessions \cup {"free"}
    /\ \A s \in Sessions : pc[s] \in {"idle", "waiting", "inflight"}
    /\ last.n \in 0..scope.runs

---------------------------------------------------------------------------
(* Properties *)

\* The entry of hazard type t is inside its ttl window.
InWindow(t) == cache[t].present /\ now - cache[t].fetchedAt < TTL

\* A page run for hazard type t ends in this step.
RunEnds(t) == last'.n # last.n /\ last'.t = t

\* C1: while the entry of a hazard type is inside its 600-second window, no
\* upstream call is issued for that type, and a fetch call that ends is
\* served the entry's list from the cache, having issued no request.
C1_WindowServedFromCache ==
    [][\A t \in Types :
          InWindow(t) =>
             /\ upcalls'[t] = upcalls[t]
             /\ \A s \in Sessions : pc'[s] = "inflight" /\ req'[s] = t => pc[s] = "inflight"
             /\ RunEnds(t) =>
                   /\ last'.how = "hit"
                   /\ last'.up = 0
                   /\ last'.events = cache[t].events]_vars

\* C1 witness: a second call was served a non-empty list from the cache
\* after exactly one upstream call for its type.
C1_Witness ==
    /\ last.how = "hit"
    /\ last.n = 2
    /\ last.events # <<>>
    /\ upcalls[last.t] = 1

\* C2: a failed fetch leaves the cache entry of its hazard type untouched: it
\* neither creates nor replaces an entry.  (Violated: a fetch function that
\* returns [] on a failure has that [] stored as the entry.)
C2_FailureLeavesEntryUntouched ==
    [][\A t \in Types :
          (RunEnds(t) /\ last'.how # "hit" /\ Failed(last'.resp)) => cache'[t] = cache[t]]_vars

\* C3: when the upstream call fails with a transport error or a timeout, the
\* fetch returns an empty list and no exception reaches the page.  (Violated:
\* requests.get of the seismic and wildfire functions is outside any try.)
C3_TransportErrorYieldsEmptyList ==
    last.resp.kind \in {"transport", "timeout"} =>
        last.how = "fetched" /\ last.events = <<>>

\* C4: the list a fetch returns has at most 10 records, for every hazard type.
\* (Violated: the cyclone and tsunami functions do not truncate, and the
\* wildfire function truncates the source events before fanning them out.)
C4_AtMostTenRecords ==
    last.how \in {"hit", "fetched"} => Len(last.events) <= Cap

\* The generations of the records of a list (a record's name carries it).
GensOf(t, events) ==
    {(CASE t = "seismic" -> events[i].place
        [] t = "wildfire" -> events[i].title
        [] t = "cyclone" -> events[i].name
        [] OTHER -> events[i].location)[1] : i \in 1..Len(events)}

\* C5: a call made after the entry of its type has expired issues exactly one
\* upstream call, and when the function returns the entry is exactly the
\* list it returned, written at that time: nothing of the prior list is kept.
C5_ExpiredEntryReplacedWholesale ==
    (last.how = "fetched" /\ last.stale) =>
        /\ last.up = 1
        /\ cache[last.t].present
        /\ cache[last.t].events = last.events
        /\ Cardinality(GensOf(last.t, cache[last.t].events)) <= 1

\* C5 witness: an expired entry was replaced by a newly fetched non-empty
\* list, one ttl or more after the start.
C5_Witness ==
    /\ last.how = "fetched"
    /\ last.stale
    /\ last.events # <<>>
    /\ last.n = 2
    /\ upcalls[last.t] = 2

\* C6: at any time at most one upstream fetch is in flight per hazard type.
C6_OneInFlightPerType ==
    \A t \in Types : Cardinality({s \in Sessions : pc[s] = "inflight" /\ req[s] = t}) <= 1

\* C6 witness: two sessions are in the cache-miss window of one type, one
\* with its request in flight and the other held back.
C6_Witness ==
    \E s1 \in Sessions, s2 \in Sessions :
        /\ pc[s1] = "inflight"
        /\ pc[s2] = "waiting"
        /\ req[s1] = req[s2]
        /\ upcalls[req[s1]] = 1

\* C7: a write of a type's entry comes from a fetch that was issued no earlier
\* than the entry it replaces was committed, and never lowers fetchedAt.
C7_WritesMonotonic ==
    [][\A t \in Types, s \in Sessions :
          (cache'[t] # cache[t] /\ cache[t].present /\ pc[s] = "inflight" /\ pc'[s] = "idle")
             => /\ sess[s].issuedAt >= cache[t].fetchedAt
                /\ cache'[t].fetchedAt >= cache[t].fetchedAt]_vars

\* C7 witness: a committed entry has been overwritten by a later fetch.
C7_Witness ==
    /\ last.how = "fetched"
    /\ last.stale
    /\ cache[last.t].fetchedAt >= TTL

\* C8: the store, the lock and the call count of a hazard type change only in
\* a step of a session that is running the fetch of that very type.
C8_TypesIsolated ==
    [][\A t \in Types :
          (cache'[t] # cache[t] \/ lock'[t] # lock[t] \/ upcalls'[t] # upcalls[t])
             => \E s \in Sessions : pc[s] # "idle" /\ req[s] = t /\ pc'[s] # pc[s]]_vars

\* C8 witness: the fetch of one type has failed with an exception while
\* another type keeps its non-empty entry.
C8_Witness ==
    /\ last.how = "exception"
    /\ \E u \in Types : u # last.t /\ cache[u].present /\ cache[u].events # <<>>

\* C9: when the upstream answers with a non-2xx status the caller receives
\* an empty list and no exception, for every hazard type.  (Violated:
\* raise_for_status of the cyclone and tsunami functions lets a 3xx answer
\* through, and its body is parsed and returned.)
C9_NonSuccessStatusYieldsEmptyList ==
    (last.how # "hit" /\ last.resp.kind = "http"
        /\ (last.resp.status < 200 \/ last.resp.status > 299)) =>
        last.how = "fetched" /\ last.events = <<>>

\* C10: rendering the list a fetch returned never raises: every record gets
\* a colour.  (Violated: a seismic magnitude of null is compared with 4, a
\* tsunami magnitude of null or of a non-numeric string is given to float.)
C10_ClassificationNeverRaises ==
    last.render.err = "none"

\* The records of a list.
Range(events) == {events[i] : i \in 1..Len(events)}

\* The user chose a label earlier that the list of this run does not offer.
SelectionGone ==
    /\ HasSelectbox(last.t)
    /\ last.want # NoLabel
    /\ last.want \notin Labels(last.t, last.events)

PointsOf(event) == SelectSeq(event.geometry, LAMBDA c : Len(c) = 2)

\* The number of points of the source events before the k-th.
RECURSIVE PointsBefore(_, _)
PointsBefore(src, k) ==
    IF k <= 1 THEN 0
    ELSE PointsBefore(src, k - 1) + Len(PointsOf(src[k - 1]))

\* The wildfire function returned a list built from a parsed answer.
WildfireListed ==
    /\ last.t = "wildfire"
    /\ last.how = "fetched"
    /\ last.resp.kind = "http" /\ last.resp.status = 200 /\ last.resp.json

\* C12: in the list the wildfire function returns, every geometry point of
\* every processed source event (the first ten) has its own record, the
\* records follow the upstream order of events and of points, and the
\* records of one event share its title and source URL; so an event with
\* three points yields three records.
C12_WildfireFanOut ==
    WildfireListed =>
        LET src == Take(last.resp.items, Cap)
        IN /\ Len(last.events) = PointsBefore(src, Len(src) + 1)
           /\ \A k \in 1..Len(src) : \A j \in 1..Len(PointsOf(src[k])) :
                LET e == last.events[PointsBefore(src, k) + j]
                IN /\ e.title = src[k].id
                   /\ e.source = src[k].url
                   /\ e.longitude = PointsOf(src[k])[j][1]
                   /\ e.latitude = PointsOf(src[k])[j][2]

C12_Witness ==
    /\ WildfireListed
    /\ Len(last.resp.items) = 1
    /\ Len(PointsOf(last.resp.items[1])) = 3
    /\ Len(last.events) = 3
    /\ \A i \in 1..3 : last.events[i].title = last.resp.items[1].id
    /\ last.events[1].latitude # last.events[3].latitude

\* C13: every record of a returned list that has a location has its latitude
\* in [-90, 90] and its longitude in [-180, 180], whatever coordinates the
\* upstream payload carries (a tsunami record without numeric coordinates
\* has no location).
C13_CoordinatesInRange ==
    \A e \in Range(last.events) :
        IF last.t = "tsunami"
        THEN (e.latitude.k = "num" /\ e.longitude.k = "num") =>
                 /\ e.latitude.n \in -90..90
                 /\ e.longitude.n \in -180..180
        ELSE /\ e.latitude \in -90..90
             /\ e.longitude \in -180..180

\* The seismic page shows a record whose magnitude is a number.
SeismicShown ==
    /\ last.t = "seismic"
    /\ last.picked # <<>>
    /\ last.picked[1].magnitude.k = "num"

\* C14: for the record the seismic page shows, with numeric magnitude m, the
\* marker is green when m < 4, orange when 4 <= m < 6 and red when m >= 6,
\* and its radius is 2 * m (magnitudes and radii in tenths: 5.2 gives an
\* orange marker of radius 10.4).
C14_SeismicMarker ==
    SeismicShown =>
        LET m == last.picked[1].magnitude.n
        IN /\ last.render.err = "none"
           /\ Len(last.render.colors) = 1
           /\ (m < 40) => last.render.colors[1] = "green"
           /\ (m >= 40 /\ m < 60) => last.render.colors[1] = "orange"
           /\ (m >= 60) => last.render.colors[1] = "red"
           /\ last.radius = 2 * m

C14_Witness ==
    /\ SeismicShown
    /\ last.picked[1].magnitude.n = 52
    /\ last.render.colors = <<"orange">>
    /\ last.radius = 104

\* The events the tsunami page puts on its map.
ValidEvents(events) ==
    SelectSeq(events, LAMBDA e : e.latitude # JNull /\ e.longitude # JNull)

\* C15: on the tsunami page every mapped event has a marker; it is blue when
\* the magnitude is the "N/A" sentinel (never parsed as a number); otherwise
\* it is darkred for a magnitude >= 8.0, else red for >= 6.5, else orange
\* for >= 5.0, else yellow (magnitudes in tenths).
C15_TsunamiMarker ==
    (last.t = "tsunami" /\ last.how \in {"hit", "fetched"}) =>
        LET valid == ValidEvents(last.events)
        IN /\ last.render.err = "none"
           /\ Len(last.render.colors) = Len(valid)
           /\ \A i \in 1..Len(valid) :
                LET mag == valid[i].magnitude
                    color == last.render.colors[i]
                IN IF mag = JStr("N/A") THEN color = "blue"
                   ELSE IF mag.k # "num"
                        THEN color \in {"darkred", "red", "orange", "yellow"}
                   ELSE /\ (mag.n >= 80) => color = "darkred"
                        /\ (mag.n >= 65 /\ mag.n < 80) => color = "red"
                        /\ (mag.n >= 50 /\ mag.n < 65) => color = "orange"
                        /\ (mag.n < 50) => color = "yellow"

\* The colour table of the claim, as pairs <<label, colour>>.
CategoryTable ==
    {<<"Tropical Depression", "green">>, <<"Tropical Storm", "orange">>,
     <<"Category 1", "yellow">>, <<"Category 2", "gold">>,
     <<"Category 3", "red">>, <<"Category 4", "darkred">>,
     <<"Category 5", "purple">>}

\* C16: the cyclone page colours the record it shows by looking its category
\* up in the table; a category that is no label of the table (the default
\* "Unknown Category" included) gives blue, and the lookup never raises.
C16_CycloneMarker ==
    (last.t = "cyclone" /\ last.picked # <<>>) =>
        LET category == last.picked[1].category
        IN /\ last.render.err = "none"
           /\ Len(last.render.colors) = 1
           /\ \A row \in CategoryTable :
                category = JStr(row[1]) => last.render.colors[1] = row[2]
           /\ (\A row \in CategoryTable : category # JStr(row[1]))
                => last.render.colors[1] = "blue"

C16_Witness ==
    /\ last.t = "cyclone"
    /\ last.picked # <<>>
    /\ last.picked[1].category = JStr("Unknown Category")
    /\ last.render.colors = <<"blue">>

\* The upstream record a returned record was built from.
NameOf(t, e) ==
    CASE t = "seismic" -> e.place
      [] t = "wildfire" -> e.title
      [] t = "cyclone" -> e.name
      [] OTHER -> e.location

\* A function parsed the answer of its endpoint (status 200, a JSON body).
Parsed ==
    /\ last.how \in {"fetched", "exception"}
    /\ last.resp.kind = "http" /\ last.resp.status = 200 /\ last.resp.json

\* C17: a malformed record in a parsed answer is skipped on its own: the
\* function still returns a list, and that list has a record for every
\* well-formed upstream record among the first ten.
C17_MalformedRecordSkipped ==
    Parsed =>
        /\ last.how = "fetched"
        /\ \A i \in 1..Min(Len(last.resp.items), Cap) :
             last.resp.items[i].shape = "object" =>
                 \E e \in Range(last.events) :
                     NameOf(last.t, e) = last.resp.items[i].id

\* C18: every outbound call carries its own timeout, so a fetch that is in
\* flight can always complete: whatever the endpoint does, silence
\* included, something ends the call (an answer, an error or the timeout).
C18_EveryCallCanComplete ==
    \A s \in Sessions : pc[s] = "inflight" => ENABLED Respond(s)

\* A script run of session s takes place in this step.
Runs(s) == shown'[s] # shown[s] \/ session_state'[s] # session_state[s]

\* C19: a script run renders a page other than the authentication page, or
\* calls a hazard fetch, only when the authenticated flag of its session is
\* true at the gate; the flag turns true only in a run that handles the
\* Login button with credentials authenticate_user accepts, for that
\* username; the Logout button leaves it false and the run that follows
\* renders the authentication page.
C19_AuthGate ==
    [][\A s \in Sessions :
         Runs(s) =>
           /\ (shown'[s].page # "auth" \/ shown'[s].fetch # NoType)
                => shown'[s].flag
           /\ (session_state'[s].authenticated /\ ~session_state[s].authenticated)
                => /\ shown'[s].event[1] = "login"
                   /\ authenticate_user(users, shown'[s].event[2], shown'[s].event[3])
                   /\ session_state'[s].username = shown'[s].event[2]
           /\ shown'[s].event = <<"logout">>
                => (~session_state'[s].authenticated /\ shown'[s].page = "auth")]_vars

\* A session that logged out is back on the authentication page while the
\* other still sees a hazard page.
C19_Witness ==
    \E s \in Sessions, o \in Sessions :
        /\ session_state[s].page = "logout"
        /\ ~session_state[s].authenticated
        /\ shown[s].page = "auth"
        /\ shown[s].event = <<"logout">>
        /\ session_state[o].authenticated
        /\ shown[o].fetch # NoType

\* No two rows of table users have the same username.
UniqueUsernames(table) ==
    \A r1 \in table : \A r2 \in table : r1.username = r2.username => r1 = r2

\* C20: a create_user call that returns True has inserted exactly one row,
\* its password passes is_password_strong and no row had its username
\* before; a call that returns False leaves the table unchanged; usernames
\* are unique after every step.
C20_CreateUser ==
    [][/\ created'.called =>
            IF created'.ok
            THEN \E row \in users' :
                    /\ row \notin users
                    /\ users' = users \cup {row}
                    /\ is_password_strong(row.password).ok
                    /\ \A r \in users : r.username # row.username
            ELSE users' = users
       /\ UniqueUsernames(users')]_vars

\* A call was refused although its password is strong: every username it
\* can have been called with is taken.
C20_Witness ==
    /\ created.called
    /\ ~created.ok
    /\ \A u \in AnyUsernames : \E r \in users : r.username = u

\* C21: every record of the list a hazard fetch returned is selectable on its
\* page: looking up the label of a record in the dictionary built from the
\* list yields that record, so the labels are in one-to-one correspondence
\* with the records and no record is hidden by another with the same label.
C21_EveryRecordSelectable ==
    (HasSelectbox(last.t) /\ last.how \in {"hit", "fetched"}) =>
        /\ \A i \in 1..Len(last.events) :
             DictGet(last.t, last.events, Label(last.t, last.events[i]))
                = <<last.events[i]>>
        /\ Cardinality(Labels(last.t, last.events)) = Len(last.events)

\* The pages that button actions can lead to from a set of pages, those
\* pages included.
RECURSIVE NavClosure(_)
NavClosure(pages) ==
    LET more == pages \cup UNION {NavTargets(p) : p \in pages}
    IN IF more = pages THEN pages ELSE NavClosure(more)

\* C22: navigation has no dead end for a logged-in user: from the page an
\* authenticated session sees, some sequence of navigation buttons leads to
\* the home page (without logging out), and the value of session page is one
\* the dispatcher handles.
C22_NoDeadEnd ==
    \A s \in Sessions :
        (shown[s].flag /\ session_state[s].authenticated) =>
            /\ "home" \in NavClosure({shown[s].page})
            /\ session_state[s].page \in Dispatched \cup {"prediction"}

\* C23: profile rename keeps session and table consistent: the username of
\* every authenticated session names a row of the users table, also when two
\* sessions logged in as the same user interleave their saves.
C23_SessionNamesRow ==
    \A s \in Sessions :
        session_state[s].authenticated =>
            \E r \in users : r.username = session_state[s].username

\* The names of the character classes a password lacks.
MissingClasses(password) ==
    {c \in {"uppercase letter", "lowercase letter", "number", "special character"} :
        ~\E i \in 1..Len(password) :
            password[i] = (CASE c = "uppercase letter" -> "A"
                             [] c = "lowercase letter" -> "a"
                             [] c = "number" -> "1"
                             [] OTHER -> "!")}

\* C24: is_password_strong returns True exactly when the password has at
\* least 8 characters and one character of each of the four classes;
\* otherwise False with a message that names exactly the missing classes, or
\* only the length message when the password is shorter than 8.
C24_PasswordStrength ==
    strength.called =>
        LET p == strength.password
            r == strength.result
        IN /\ r.ok <=> (Len(p) >= MIN_PASSWORD_LENGTH /\ MissingClasses(p) = {})
           /\ (~r.ok /\ Len(p) < MIN_PASSWORD_LENGTH) => r.msg = <<"length">>
           /\ (~r.ok /\ Len(p) >= MIN_PASSWORD_LENGTH) =>
                  /\ Range(r.msg) = MissingClasses(p)
                  /\ Len(r.msg) = Cardinality(MissingClasses(p))

\* A password of exactly the minimum length with all four classes was
\* accepted.
C24_Witness ==
    /\ strength.called
    /\ Len(strength.password) = MIN_PASSWORD_LENGTH
    /\ strength.result.ok


====
